---- MODULE Spec2Model ----
(***************************************************************************)
(* Model of crates/accelerate/src/synthesis/linear_phase/                  *)
(* cnot_phase_synth.rs: the Gray-Synth synthesis of a CNOT + phase-gate    *)
(* circuit from a phase polynomial (synth_cnot_phase_aam) and the          *)
(* immediate-match pre-pass (InstructionIterator).                         *)
(*                                                                         *)
(* Representation.  A GF(2) vector over the qubits is a function           *)
(* 0..num_qubits-1 -> {0,1} (qubit numbers as in the source).  An n x m    *)
(* matrix of phase terms is the sequence of its m columns, so ndarray's    *)
(* is_empty() (some axis has length 0, n >= 1) is "the sequence is empty". *)
(* The parity matrix `state` is a function row -> vector.  Source indices  *)
(* (index, qubit_idx, _j, _ep) stay 0-based; sequence position index + 1   *)
(* holds the element the source calls index.                               *)
(***************************************************************************)
EXTENDS Integers, Sequences, FiniteSets

\* ------------------------------------------------------------------ bounds
MaxQubits == 3
MaxCols == 2

\* ------------------------------------------------------------------ labels
\* The angle strings the model draws from: the five symbolic tags, one
\* decimal string and one string that is neither.
SymbolicTags == {"t", "tdg", "s", "sdg", "z"}
NumericLabels == {"4"}
MalformedLabels == {"xyz"}
ValidLabels == SymbolicTags \cup NumericLabels
AllLabels == ValidLabels \cup MalformedLabels

\* f64 values are kept in thousandths of a radian.
PI == 3141

\* str::parse::<f64>() on the strings above: Ok(value) or Err.
ParseF64(str) ==
    IF str \in NumericLabels
    THEN [ok |-> TRUE, val |-> 4000]
    ELSE [ok |-> FALSE, val |-> 0]

\* ------------------------------------------------------------------ helpers
Qubits(n) == 0 .. (n - 1)
Vectors(n) == [Qubits(n) -> {0, 1}]

\* Array2::<u8>::eye(n)
Eye(n) == [r \in Qubits(n) |-> [k \in Qubits(n) |-> IF r = k THEN 1 ELSE 0]]

\* u8 ^ u8 on 0/1 entries
Xor(a, b) == (a + b) % 2

\* Vec::remove(index) / remove_index(Axis(1), index), index 0-based and in range
RemoveAt(seq, index) ==
    SubSeq(seq, 1, index) \o SubSeq(seq, index + 2, Len(seq))

\* AngleRemove with the index forgotten: remove(0).
AngleRemoveFirst(angs, index) == RemoveAt(angs, 0)

\* rust_angles_cpy.remove(self.index) at line 69, rust_angles.remove(index) at
\* line 180: the label at the index of the matching column.
AngleRemove(angs, index) == RemoveAt(angs, index)

None == [gate |-> "None"]

\* type Instruction = (StandardGate, SmallVec<[Param; 3]>, SmallVec<[Qubit; 2]>)
Instr(gate, params, qubits) == [gate |-> gate, params |-> params, qubits |-> qubits]

\* ------------------------------------------------------------------ state
VARIABLES
    num_qubits,    \* s.nrows()
    s,             \* the input matrix `cnots`, as its sequence of columns
    angles,        \* the input list `angles` (strings)
    s_cpy,         \* remaining phase-term columns (iterator's s_cpy, then main's)
    rust_angles,   \* remaining labels (iterator's rust_angles_cpy, then main's)
    qubit_idx,     \* InstructionIterator.qubit_idx
    index,         \* InstructionIterator.index
    state,         \* parity state matrix
    instructions,  \* the instruction list
    q,             \* the work stack, top of stack last
    cur,           \* the item being processed: (_s, _i, _ep)
    j,             \* next value of the `for _j` loop
    condition,     \* the fixpoint flag
    state_bool,    \* the matrix handed to synth_pmh
    col_ids,       \* history: original column number of each column of s_cpy
    consumed,      \* history: one entry per column match (label removed):
                   \* the column's original number, the place in
                   \* `instructions` of its gate (0: none), the qubit
    pc

vars == <<num_qubits, s, angles, s_cpy, rust_angles, qubit_idx, index, state,
          instructions, q, cur, j, condition, state_bool, col_ids, consumed, pc>>

\* The iterator's state_cpy: a clone of `state` taken at construction, never written.
state_cpy == Eye(num_qubits)

\* ------------------------------------------------------------------ label -> gate
\* The match of InstructionIterator::next; None is the `?` on a failed parse.
PrePassGate(angle, qubit) ==
    CASE angle = "t"   -> Instr("TGate", <<>>, <<qubit>>)
      [] angle = "tgd" -> Instr("TdgGate", <<>>, <<qubit>>)
      [] angle = "s"   -> Instr("SGate", <<>>, <<qubit>>)
      [] angle = "sdg" -> Instr("SdgGate", <<>>, <<qubit>>)
      [] angle = "z"   -> Instr("ZGate", <<>>, <<qubit>>)
      [] OTHER -> IF ParseF64(angle).ok
                  THEN Instr("PhaseGate", <<ParseF64(angle).val % PI>>, <<qubit>>)
                  ELSE None

\* EngineGate with the arms of "t" and "tdg" exchanged.
EngineGateSwapped(angle, qubit) ==
    CASE angle = "t"   -> Instr("TdgGate", <<>>, <<qubit>>)
      [] angle = "tdg" -> Instr("TGate", <<>>, <<qubit>>)
      [] angle = "s"   -> Instr("SGate", <<>>, <<qubit>>)
      [] angle = "sdg" -> Instr("SdgGate", <<>>, <<qubit>>)
      [] angle = "z"   -> Instr("ZGate", <<>>, <<qubit>>)
      [] OTHER -> IF ParseF64(angle).ok
                  THEN Instr("PhaseGate", <<ParseF64(angle).val % PI>>, <<qubit>>)
                  ELSE None

\* The match of the re-check in synth_cnot_phase_aam; None is the `?` (Err returned).
EngineGate(angle, qubit) ==
    CASE angle = "t"   -> Instr("TGate", <<>>, <<qubit>>)
      [] angle = "tdg" -> Instr("TdgGate", <<>>, <<qubit>>)
      [] angle = "s"   -> Instr("SGate", <<>>, <<qubit>>)
      [] angle = "sdg" -> Instr("SdgGate", <<>>, <<qubit>>)
      [] angle = "z"   -> Instr("ZGate", <<>>, <<qubit>>)
      [] OTHER -> IF ParseF64(angle).ok
                  THEN Instr("PhaseGate", <<ParseF64(angle).val % PI>>, <<qubit>>)
                  ELSE None

\* ------------------------------------------------------------------ pre-pass
\* One call of InstructionIterator::next, its self-recursion included.  The
\* result holds the iterator's fields after the call, the returned
\* instruction (None for Option::None), whether Vec::remove panicked, and the
\* original number of the column removed (0 when none was).
RECURSIVE IterNext(_, _, _, _, _)
IterNext(cols, angs, ids, qidx, idx) ==
    IF qidx >= num_qubits
    THEN [s_cpy |-> cols, rust_angles |-> angs, col_ids |-> ids, qubit_idx |-> qidx,
          index |-> idx, instr |-> None, panic |-> FALSE, removed |-> 0]
    ELSE IF idx < Len(cols)
    THEN IF cols[idx + 1] = state_cpy[qidx]
         THEN IF idx >= Len(angs)
              THEN [s_cpy |-> RemoveAt(cols, idx), rust_angles |-> angs,
                    col_ids |-> RemoveAt(ids, idx), qubit_idx |-> qidx,
                    index |-> idx, instr |-> None, panic |-> TRUE,
                    removed |-> ids[idx + 1]]
              ELSE [s_cpy |-> RemoveAt(cols, idx), rust_angles |-> AngleRemove(angs, idx),
                    col_ids |-> RemoveAt(ids, idx), qubit_idx |-> qidx,
                    index |-> idx, instr |-> PrePassGate(angs[idx + 1], qidx),
                    panic |-> FALSE, removed |-> ids[idx + 1]]
         ELSE IterNext(cols, angs, ids, qidx, idx + 1)
    ELSE IterNext(cols, angs, ids, qidx + 1, 0)

\* One step of `from_fn(|| instr_iter.next()).collect()`: a Some is collected
\* (and ends up in `instructions`, which is empty until line 145), a None ends
\* the collection.
ScanNext ==
    /\ pc = "scan"
    /\ LET r == IterNext(s_cpy, rust_angles, col_ids, qubit_idx, index) IN
       /\ s_cpy' = r.s_cpy
       /\ rust_angles' = r.rust_angles
       /\ col_ids' = r.col_ids
       /\ qubit_idx' = r.qubit_idx
       /\ index' = r.index
       /\ instructions' = IF r.instr = None THEN instructions
                          ELSE Append(instructions, r.instr)
       /\ consumed' = IF r.removed = 0 THEN consumed
                      ELSE Append(consumed,
                                  [col_id |-> r.removed,
                                   pos |-> IF r.instr = None THEN 0
                                           ELSE Len(instructions) + 1,
                                   qubit |-> r.qubit_idx,
                                   phase |-> "scan"])
       /\ pc' = IF r.panic THEN "panic"
                ELSE IF r.instr = None THEN "start" ELSE "scan"
    /\ UNCHANGED <<num_qubits, s, angles, state, q, cur, j, condition, state_bool>>

\* Lines 143-148: current_state(), epsilon, the initial work stack.
NoItem == [s |-> <<>>, i |-> <<>>, ep |-> 0]
Item(m, i, ep) == [s |-> m, i |-> i, ep |-> ep]

\* A variant whose sentinel is a row index.
epsilonLast == num_qubits - 1

epsilon == num_qubits

StartEngine ==
    /\ pc = "start"
    /\ q' = <<Item(s, [k \in 1 .. num_qubits |-> k - 1], epsilon)>>
    /\ pc' = "pop"
    /\ UNCHANGED <<num_qubits, s, angles, s_cpy, rust_angles, qubit_idx, index, state,
                   instructions, cur, j, condition, state_bool, col_ids, consumed>>

\* ------------------------------------------------------------------ engine
\* q.pop() at line 151, unless the stack is empty or the item's matrix is.
\* A variant that lacks the `continue` of lines 153-155.
AfterPopNoSkip(item) ==
    IF item.ep < num_qubits THEN "elim" ELSE "split"

\* Lines 153-157: an item with no column is skipped; otherwise the
\* row-elimination loop runs when the item has an excluded row.
AfterPop(item) ==
    IF item.s = <<>> THEN "pop"
    ELSE IF item.ep < num_qubits THEN "elim" ELSE "split"

PopItem ==
    /\ pc = "pop"
    /\ q /= <<>>
    /\ cur' = q[Len(q)]
    /\ q' = SubSeq(q, 1, Len(q) - 1)
    /\ pc' = AfterPop(cur')
    /\ j' = 0
    /\ condition' = FALSE
    /\ UNCHANGED <<num_qubits, s, angles, s_cpy, rust_angles, qubit_idx, index, state,
                   instructions, state_bool, col_ids, consumed>>

\* _s.row(_j).sum() as usize == _s.row(_j).len(): true of every row of a
\* matrix with no columns.
RowAllOnes(m, row) == \A k \in 1 .. Len(m) : m[k][row] = 1

\* The first _j >= from the `for` loop acts on, num_qubits when there is none.
RECURSIVE NextRow(_, _, _)
NextRow(m, ep, from) ==
    IF from >= num_qubits THEN num_qubits
    ELSE IF from /= ep /\ RowAllOnes(m, from) THEN from
    ELSE NextRow(m, ep, from + 1)

\* XorStateRow with control and target exchanged: state[(_j, _k)] ^= state[(_ep, _k)].
XorStateRowSwapped(st, ep, row) ==
    [st EXCEPT ![row] = [k \in Qubits(num_qubits) |-> Xor(st[row][k], st[ep][k])]]

\* XorStateRow with = for ^=: state[(_ep, _k)] = state[(_j, _k)].
XorStateRowAssign(st, ep, row) ==
    [st EXCEPT ![ep] = [k \in Qubits(num_qubits) |-> st[row][k]]]

\* Lines 171-173: state[(_ep, _k)] ^= state[(_j, _k)] for every _k.
XorStateRow(st, ep, row) ==
    [st EXCEPT ![ep] = [k \in Qubits(num_qubits) |-> Xor(st[ep][k], st[row][k])]]

\* A variant of the re-check without `swtch`: after a removal at index 0 the
\* index is incremented like after any column that does not match.
RECURSIVE RecheckNoSwitch(_, _, _, _, _, _, _, _, _)
RecheckNoSwitch(cols, angs, ids, idx, swtch, target, ep, out, got) ==
    IF idx >= Len(cols)
    THEN [s_cpy |-> cols, rust_angles |-> angs, col_ids |-> ids, out |-> out,
          got |-> got, err |-> "none"]
    ELSE IF cols[idx + 1] = target
    THEN IF idx >= Len(angs)
         THEN [s_cpy |-> cols, rust_angles |-> angs, col_ids |-> ids, out |-> out,
               got |-> got, err |-> "panic"]
         ELSE IF EngineGate(angs[idx + 1], ep) = None
         THEN [s_cpy |-> cols, rust_angles |-> AngleRemove(angs, idx), col_ids |-> ids,
               out |-> out, got |-> Append(got, [col_id |-> ids[idx + 1], pos |-> 0]),
               err |-> "parse"]
         ELSE LET cols2 == RemoveAt(cols, idx)
                  angs2 == AngleRemove(angs, idx)
                  ids2 == RemoveAt(ids, idx)
                  out2 == Append(out, EngineGate(angs[idx + 1], ep))
                  got2 == Append(got, [col_id |-> ids[idx + 1], pos |-> Len(out2)])
              IN IF idx = Len(cols2)
                 THEN [s_cpy |-> cols2, rust_angles |-> angs2, col_ids |-> ids2,
                       out |-> out2, got |-> got2, err |-> "none"]
                 ELSE IF idx = 0
                 THEN RecheckNoSwitch(cols2, angs2, ids2, 1, TRUE, target, ep,
                                      out2, got2)
                 ELSE RecheckNoSwitch(cols2, angs2, ids2, (idx - 1) + 1, TRUE, target,
                                      ep, out2, got2)
    ELSE RecheckNoSwitch(cols, angs, ids, idx + 1, TRUE, target, ep, out, got)

\* Lines 175-229, the re-check against state row _ep.  `out` collects the
\* emitted gates; `ids` and `got` are history: per matching column its
\* original number and the place in `out` of its gate (0: none).  err is
\* "parse" for the `?` at line 209 (the label is removed, the column is not)
\* and "panic" for Vec::remove out of range.
RECURSIVE Recheck(_, _, _, _, _, _, _, _, _)
Recheck(cols, angs, ids, idx, swtch, target, ep, out, got) ==
    IF idx >= Len(cols)
    THEN [s_cpy |-> cols, rust_angles |-> angs, col_ids |-> ids, out |-> out,
          got |-> got, err |-> "none"]
    ELSE IF cols[idx + 1] = target
    THEN IF idx >= Len(angs)
         THEN [s_cpy |-> cols, rust_angles |-> angs, col_ids |-> ids, out |-> out,
               got |-> got, err |-> "panic"]
         ELSE IF EngineGate(angs[idx + 1], ep) = None
         THEN [s_cpy |-> cols, rust_angles |-> AngleRemove(angs, idx), col_ids |-> ids,
               out |-> out, got |-> Append(got, [col_id |-> ids[idx + 1], pos |-> 0]),
               err |-> "parse"]
         ELSE LET cols2 == RemoveAt(cols, idx)
                  angs2 == AngleRemove(angs, idx)
                  ids2 == RemoveAt(ids, idx)
                  out2 == Append(out, EngineGate(angs[idx + 1], ep))
                  got2 == Append(got, [col_id |-> ids[idx + 1], pos |-> Len(out2)])
              IN IF idx = Len(cols2)
                 THEN [s_cpy |-> cols2, rust_angles |-> angs2, col_ids |-> ids2,
                       out |-> out2, got |-> got2, err |-> "none"]
                 ELSE IF idx = 0
                 THEN \* swtch = false: no increment, swtch back to true
                      Recheck(cols2, angs2, ids2, 0, TRUE, target, ep, out2, got2)
                 ELSE \* index -= 1, then index += 1
                      Recheck(cols2, angs2, ids2, (idx - 1) + 1, TRUE, target, ep,
                              out2, got2)
    ELSE IF swtch
    THEN Recheck(cols, angs, ids, idx + 1, TRUE, target, ep, out, got)
    ELSE Recheck(cols, angs, ids, idx, TRUE, target, ep, out, got)

\* A variant that takes two items for equal when their eligible lists and
\* their excluded rows are, whatever their matrices.
RECURSIVE DedupByRows(_, _)
DedupByRows(queue, unique_q) ==
    IF queue = <<>> THEN unique_q
    ELSE IF \E k \in 1 .. Len(unique_q) :
                /\ unique_q[k].i = Head(queue).i
                /\ unique_q[k].ep = Head(queue).ep
    THEN DedupByRows(Tail(queue), unique_q)
    ELSE DedupByRows(Tail(queue), Append(unique_q, Head(queue)))

\* A variant that builds unique_q back to front.
RECURSIVE DedupReversed(_, _)
DedupReversed(queue, unique_q) ==
    IF queue = <<>> THEN unique_q
    ELSE IF \E k \in 1 .. Len(unique_q) : unique_q[k] = Head(queue)
    THEN DedupReversed(Tail(queue), unique_q)
    ELSE DedupReversed(Tail(queue), <<Head(queue)>> \o unique_q)

\* Lines 232-239: keep the first of equal items.
RECURSIVE Dedup(_, _)
Dedup(queue, unique_q) ==
    IF queue = <<>> THEN unique_q
    ELSE IF \E k \in 1 .. Len(unique_q) : unique_q[k] = Head(queue)
    THEN Dedup(Tail(queue), unique_q)
    ELSE Dedup(Tail(queue), Append(unique_q, Head(queue)))

\* Lines 248-250 on one matrix: row _j ^= row _ep.
XorItemRow(m, row, ep) ==
    [k \in 1 .. Len(m) |-> [m[k] EXCEPT ![row] = Xor(m[k][row], m[k][ep])]]

\* A variant that updates only the item on top of the stack.
BroadcastTopOnly(queue, row, ep) ==
    [k \in 1 .. Len(queue) |->
        IF k = Len(queue)
        THEN [queue[k] EXCEPT !.s = XorItemRow(queue[k].s, row, ep)]
        ELSE queue[k]]

\* Lines 241-251: the update of every queued item (an empty matrix has no
\* entry to update).
Broadcast(queue, row, ep) ==
    [k \in 1 .. Len(queue) |->
        [queue[k] EXCEPT !.s = XorItemRow(queue[k].s, row, ep)]]

\* One iteration of the `for _j` loop whose condition at line 163 holds,
\* lines 164-253 (the iterations before it, whose condition fails, change
\* nothing).
ElimRow ==
    /\ pc = "elim"
    /\ NextRow(cur.s, cur.ep, j) < num_qubits
    /\ LET _j == NextRow(cur.s, cur.ep, j)
           _ep == cur.ep
           cx == Instr("CXGate", <<>>, <<_j, _ep>>)
           st == XorStateRow(state, _ep, _j)
           r == Recheck(s_cpy, rust_angles, col_ids, 0, TRUE, st[_ep], _ep, <<>>, <<>>)
           base == Len(instructions) + 1
           unique_q == Dedup(Append(q, cur), <<>>)
           bq == Broadcast(unique_q, _j, _ep)
       IN
       /\ condition' = TRUE
       /\ instructions' = Append(instructions, cx) \o r.out
       /\ state' = st
       /\ s_cpy' = r.s_cpy
       /\ rust_angles' = r.rust_angles
       /\ col_ids' = r.col_ids
       /\ consumed' = consumed \o
            [k \in 1 .. Len(r.got) |->
                [col_id |-> r.got[k].col_id,
                 pos |-> IF r.got[k].pos = 0 THEN 0 ELSE base + r.got[k].pos,
                 qubit |-> _ep,
                 phase |-> "engine"]]
       /\ IF r.err = "none"
          THEN /\ cur' = bq[Len(bq)]
               /\ q' = SubSeq(bq, 1, Len(bq) - 1)
               /\ j' = _j + 1
               /\ pc' = "elim"
          ELSE /\ pc' = IF r.err = "parse" THEN "error" ELSE "panic"
               /\ UNCHANGED <<cur, q, j>>
    /\ UNCHANGED <<num_qubits, s, angles, qubit_idx, index, state_bool>>

\* The `for _j` loop has no further row to act on: lines 159-160 start the
\* next pass when one changed something, line 256 leaves the loop otherwise.
ElimPassEnd ==
    /\ pc = "elim"
    /\ NextRow(cur.s, cur.ep, j) = num_qubits
    /\ IF condition
       THEN /\ condition' = FALSE
            /\ j' = 0
            /\ pc' = "elim"
       ELSE /\ pc' = "split"
            /\ UNCHANGED <<condition, j>>
    /\ UNCHANGED <<num_qubits, s, angles, s_cpy, rust_angles, qubit_idx, index, state,
                   instructions, q, cur, state_bool, col_ids, consumed>>

\* Lines 263-271: per row, max(number of 0s, number of 1s).
Count(m, row, bit) == Cardinality({k \in 1 .. Len(m) : m[k][row] = bit})
Max(a, b) == IF a >= b THEN a ELSE b
maxes(m) == [row \in Qubits(num_qubits) |-> Max(Count(m, row, 0), Count(m, row, 1))]

\* Lines 273-280: position in _i (0-based) of the maximum; Iterator::max_by
\* returns the last of several equal maxima.
\* A variant that returns the first of several equal maxima.
ArgMaxFirst(m, i) ==
    LET maxes2 == [k \in 1 .. Len(i) |-> maxes(m)[i[k]]]
    IN (CHOOSE k \in 1 .. Len(i) :
            /\ \A l \in 1 .. Len(i) : maxes2[l] <= maxes2[k]
            /\ \A l \in 1 .. (k - 1) : maxes2[l] < maxes2[k]) - 1

ArgMax(m, i) ==
    LET maxes2 == [k \in 1 .. Len(i) |-> maxes(m)[i[k]]]
    IN (CHOOSE k \in 1 .. Len(i) :
            /\ \A l \in 1 .. Len(i) : maxes2[l] <= maxes2[k]
            /\ \A l \in (k + 1) .. Len(i) : maxes2[l] < maxes2[k]) - 1

\* A variant that collects the columns in reverse order.
RECURSIVE ColsWithReversed(_, _, _)
ColsWithReversed(m, row, bit) ==
    IF m = <<>> THEN <<>>
    ELSE IF Head(m)[row] = bit
    THEN ColsWithReversed(Tail(m), row, bit) \o <<Head(m)>>
    ELSE ColsWithReversed(Tail(m), row, bit)

\* Lines 284-306: the columns with the given bit at row _j, in order.
RECURSIVE ColsWith(_, _, _)
ColsWith(m, row, bit) ==
    IF m = <<>> THEN <<>>
    ELSE IF Head(m)[row] = bit
    THEN <<Head(m)>> \o ColsWith(Tail(m), row, bit)
    ELSE ColsWith(Tail(m), row, bit)

\* Without with the filter left out: the children keep the pivot row.
WithoutKeeps(i, row) == i

\* _i.clone().into_iter().filter(|&x| x != _j).collect()
RECURSIVE Without(_, _)
Without(i, row) ==
    IF i = <<>> THEN <<>>
    ELSE IF Head(i) /= row THEN <<Head(i)>> \o Without(Tail(i), row)
    ELSE Without(Tail(i), row)

\* A variant that pushes the children in the other order.
ChildrenSwapped(item, _j) ==
    <<Item(ColsWith(item.s, _j, 0), Without(item.i, _j), item.ep),
      Item(ColsWith(item.s, _j, 1), Without(item.i, _j),
           IF item.ep = num_qubits THEN _j ELSE item.ep)>>

\* Lines 308-326: the two pushes, in the order they are made.
Children(item, _j) ==
    <<Item(ColsWith(item.s, _j, 1), Without(item.i, _j),
           IF item.ep = num_qubits THEN _j ELSE item.ep),
      Item(ColsWith(item.s, _j, 0), Without(item.i, _j), item.ep)>>

\* Lines 259-326.  _s.column(0) at line 287 panics on a matrix with no column.
Split ==
    /\ pc = "split"
    /\ IF cur.i = <<>>
       THEN /\ pc' = "pop"
            /\ q' = q
       ELSE IF cur.s = <<>>
       THEN /\ pc' = "panic"
            /\ q' = q
       ELSE LET _j == cur.i[ArgMax(cur.s, cur.i) + 1]
            IN /\ q' = q \o Children(cur, _j)
               /\ pc' = "pop"
    /\ UNCHANGED <<num_qubits, s, angles, s_cpy, rust_angles, qubit_idx, index, state,
                   instructions, cur, j, condition, state_bool, col_ids, consumed>>

\* Lines 329-330: the stack is empty; `state` goes to synth_pmh as booleans.
\* (synth_pmh and CircuitData are outside this file; the CNOTs synth_pmh
\* returns are not part of `instructions` here.)
HandOff ==
    /\ pc = "pop"
    /\ q = <<>>
    /\ state_bool' = [r \in Qubits(num_qubits) |->
                        [k \in Qubits(num_qubits) |-> state[r][k] /= 0]]
    /\ pc' = "done"
    /\ UNCHANGED <<num_qubits, s, angles, s_cpy, rust_angles, qubit_idx, index, state,
                   instructions, q, cur, j, condition, col_ids, consumed>>

\* ------------------------------------------------------------------ inputs
InitWith(LabelSeqs) ==
    /\ num_qubits \in 1 .. MaxQubits
    /\ \E m \in 0 .. MaxCols :
         /\ s \in [1 .. m -> Vectors(num_qubits)]
         /\ angles \in LabelSeqs[m]
    /\ s_cpy = s
    /\ rust_angles = angles
    /\ qubit_idx = 0
    /\ index = 0
    /\ state = Eye(num_qubits)
    /\ instructions = <<>>
    /\ q = <<>>
    /\ cur = NoItem
    /\ j = 0
    /\ condition = FALSE
    /\ state_bool = <<>>
    /\ col_ids = [k \in 1 .. Len(s) |-> k]
    /\ consumed = <<>>
    /\ pc = "scan"

\* Pairwise different valid labels, so that a label tells which column it
\* came with; the second is the one the pre-pass has no arm for.
DistinctLabels == <<"t", "tdg", "s", "sdg", "z", "4">>
Labelled == [m \in 0 .. MaxCols |-> {SubSeq(DistinctLabels, 1, m)}]

\* Any labels, the malformed one included.
AnyLabels == [m \in 0 .. MaxCols |-> [1 .. m -> AllLabels]]

\* A number of labels other than the number of columns.
OtherCount ==
    [m \in 0 .. MaxCols |->
        {SubSeq(DistinctLabels, 1, k) : k \in (0 .. (MaxCols + 1)) \ {m}}]

\* Well-formed input: every matrix of the bounds, as many labels as columns,
\* every label valid.
Init == InitWith(Labelled)

\* Every matrix of the bounds with every sequence of as many labels.
InitLabels == InitWith(AnyLabels)

\* Every matrix of the bounds with too few or too many labels.
InitMismatch == InitWith(OtherCount)

Next ==
    \/ ScanNext
    \/ StartEngine
    \/ PopItem
    \/ ElimRow
    \/ ElimPassEnd
    \/ Split
    \/ HandOff

Spec == Init /\ [][Next]_vars
SpecLabels == InitLabels /\ [][Next]_vars
SpecMismatch == InitMismatch /\ [][Next]_vars

\* The call runs to its end: single-threaded, no suspension point.
FairSpec == Init /\ [][Next]_vars /\ WF_vars(Next)

\* ------------------------------------------------------------------ claims
\* What the claims are stated with (none of this models code).

\* The parity matrix a list of instructions produces from the identity: each
\* CNOT(control, target), in order, does row[target] ^= row[control].
RECURSIVE ReplayFrom(_, _)
ReplayFrom(st, instrs) ==
    IF instrs = <<>> THEN st
    ELSE IF Head(instrs).gate = "CXGate"
    THEN LET control == Head(instrs).qubits[1]
             target == Head(instrs).qubits[2]
         IN ReplayFrom([st EXCEPT ![target] =
                           [k \in Qubits(num_qubits) |-> (st[target][k] + st[control][k]) % 2]],
                       Tail(instrs))
    ELSE ReplayFrom(st, Tail(instrs))

Replay(instrs) ==
    ReplayFrom([r \in Qubits(num_qubits) |->
                   [k \in Qubits(num_qubits) |-> IF r = k THEN 1 ELSE 0]], instrs)

\* The closed table of the specification: the gate of a label.
TableGate(label) ==
    CASE label = "t"   -> "TGate"
      [] label = "tdg" -> "TdgGate"
      [] label = "s"   -> "SGate"
      [] label = "sdg" -> "SdgGate"
      [] label = "z"   -> "ZGate"
      [] OTHER         -> "PhaseGate"

PhasePositions == {p \in 1 .. Len(instructions) : instructions[p].gate /= "CXGate"}
CnotPositions == {p \in 1 .. Len(instructions) : instructions[p].gate = "CXGate"}
Emitted == {k \in 1 .. Len(consumed) : consumed[k].pos > 0}

\* C1: every emitted phase gate is sound.  Each gate in the instruction list
\* that is not a CNOT is the gate of exactly one column match; the matches are
\* of distinct original columns; the gate acts on the qubit whose parity row,
\* obtained by replaying the CNOTs emitted before the gate from the identity,
\* equals that original column; and the gate is the one of the label the
\* input aligned with that column.
C1_PhaseGatesSound ==
    /\ \A k \in Emitted :
          LET e == consumed[k]
              g == instructions[e.pos]
          IN /\ e.pos <= Len(instructions)
             /\ g.qubits = <<e.qubit>>
             /\ Replay(SubSeq(instructions, 1, e.pos - 1))[e.qubit] = s[e.col_id]
             /\ g.gate = TableGate(angles[e.col_id])
    /\ \A p \in PhasePositions : \E k \in Emitted : consumed[k].pos = p
    /\ \A k, l \in 1 .. Len(consumed) :
          k /= l => /\ consumed[k].col_id /= consumed[l].col_id
                    /\ (consumed[k].pos /= consumed[l].pos \/ consumed[k].pos = 0)

\* C1 witness: the call has returned after phase gates of the pre-pass and of
\* the engine, the engine's one after at least two CNOTs.
C1_Witness ==
    /\ pc = "done"
    /\ \E k \in Emitted : consumed[k].phase = "scan"
    /\ \E k \in Emitted :
          /\ consumed[k].phase = "engine"
          /\ Cardinality({p \in CnotPositions : p < consumed[k].pos}) >= 2
          /\ angles[consumed[k].col_id] = "tdg"
          /\ instructions[consumed[k].pos].gate = "TdgGate"

\* C7: the parity state matrix is the replay, from the identity, of the CNOTs
\* emitted so far, in every state of the call, and the matrix handed to the
\* residual linear synthesizer is that replay as booleans.
C7_StateIsReplay ==
    /\ state = Replay(instructions)
    /\ pc = "done" =>
          \A r, k \in Qubits(num_qubits) :
              state_bool[r][k] = (Replay(instructions)[r][k] = 1)

\* C7 witness: the state is handed off after at least two CNOTs changed it.
C7_Witness ==
    /\ pc = "done"
    /\ Cardinality(CnotPositions) >= 2
    /\ state /= Eye(num_qubits)

\* The XOR of the rows R of a matrix.
RowSum(st, R) ==
    [k \in Qubits(num_qubits) |-> Cardinality({r \in R : st[r][k] = 1}) % 2]

\* No non-empty set of rows sums to zero.
Invertible(st) ==
    \A R \in (SUBSET Qubits(num_qubits)) \ {{}} :
        \E k \in Qubits(num_qubits) : RowSum(st, R)[k] = 1

\* C8: the parity state matrix is invertible over GF(2) in every state of the
\* call, and every emitted CNOT has a control different from its target.
C8_StateInvertible ==
    /\ Invertible(state)
    /\ \A p \in CnotPositions : instructions[p].qubits[1] /= instructions[p].qubits[2]

\* C8 witness: the hand-off after a row of the state has received two others.
C8_Witness ==
    /\ pc = "done"
    /\ \E r \in Qubits(num_qubits) :
          Cardinality({k \in Qubits(num_qubits) : state[r][k] = 1}) >= 3

\* The rows other than the excluded one that the fixpoint loop would act on.
AllOnesRows(item) ==
    {r \in Qubits(num_qubits) : r /= item.ep /\ RowAllOnes(item.s, r)}

\* A step of the fixpoint loop that emitted a CNOT and goes on.
ElimStep == pc = "elim" /\ pc' = "elim" /\ Len(instructions') > Len(instructions)

\* A step that pushed the children of a split.
SplitStep == pc = "split" /\ Len(q') > Len(q)

\* C3: termination.  Every step of the row-elimination loop that emits a
\* CNOT leaves the item it goes on with strictly fewer all-ones rows to act
\* on, the control row no longer among them; every child pushed by a split
\* has a strictly smaller eligible-row list than its parent; and the call
\* reaches the hand-off with an empty work stack.
C3_Terminates ==
    /\ [][ElimStep =>
            /\ AllOnesRows(cur') \subseteq AllOnesRows(cur)
            /\ AllOnesRows(cur') /= AllOnesRows(cur)
            /\ instructions'[Len(instructions) + 1].qubits[1] \notin AllOnesRows(cur')]_vars
    /\ [][SplitStep =>
            \A k \in (Len(q) + 1) .. Len(q') :
                /\ Len(q'[k].i) < Len(cur.i)
                /\ {q'[k].i[l] : l \in 1 .. Len(q'[k].i)}
                      \subseteq {cur.i[l] : l \in 1 .. Len(cur.i)}]_vars
    /\ <>(pc = "done" /\ q = <<>>)

\* C3 witness: the stack has drained after splits and after a fixpoint loop
\* that emitted three CNOTs.
C3_Witness ==
    /\ pc = "done"
    /\ q = <<>>
    /\ Cardinality(CnotPositions) >= 3
    /\ s_cpy = <<>>

\* C2: column conservation.  When the call returns, as many phase gates have
\* been emitted as the input has columns, every column and its label have
\* been consumed exactly once, and the remaining column and label lists are
\* empty.  (Stated here for the inputs with no all-zero column; an all-zero
\* column equals no row of an invertible state and is never consumed either.)
C2_ColumnConservation ==
    (/\ pc = "done"
     /\ \A k \in 1 .. Len(s) : \E r \in Qubits(num_qubits) : s[k][r] = 1)
    => /\ Cardinality(PhasePositions) = Len(s)
       /\ \A c \in 1 .. Len(s) :
             Cardinality({k \in 1 .. Len(consumed) : consumed[k].col_id = c}) = 1
       /\ s_cpy = <<>>
       /\ rust_angles = <<>>

\* C4: a malformed label met by a column match aborts the call with the
\* parse error, in the pre-pass as in the re-check: once such a label has
\* been removed the call is in its error exit.
C4_MalformedLabelAborts ==
    (\E k \in 1 .. Len(consumed) : angles[consumed[k].col_id] \in MalformedLabels)
    => pc = "error"

\* C5: with a number of labels other than the number of columns the call
\* fails before synthesis starts: the pre-pass has not scanned, no work item
\* exists or is processed, no instruction is emitted.
C5_MismatchRejected ==
    Len(angles) /= Len(s)
    => /\ pc = "scan"
       /\ qubit_idx = 0
       /\ index = 0
       /\ instructions = <<>>
       /\ consumed = <<>>
       /\ q = <<>>

\* C6: label-to-gate mapping.  Every column match whose label is valid emits
\* the gate the closed table gives that label, on the matching qubit, in the
\* pre-pass as in the re-check.
C6_LabelToGate ==
    \A k \in 1 .. Len(consumed) :
        angles[consumed[k].col_id] \in ValidLabels
        => /\ consumed[k].pos > 0
           /\ instructions[consumed[k].pos].gate = TableGate(angles[consumed[k].col_id])
           /\ instructions[consumed[k].pos].qubits = <<consumed[k].qubit>>

\* C9: label alignment.  The remaining label list is as long as the remaining
\* column list, the label at each index is the original label of the column
\* at that index, the remaining columns keep their original order, and the
\* columns no longer there are exactly the ones whose label was removed.
C9_LabelsAligned ==
    /\ Len(rust_angles) = Len(s_cpy)
    /\ Len(col_ids) = Len(s_cpy)
    /\ \A k \in 1 .. Len(s_cpy) :
          /\ s_cpy[k] = s[col_ids[k]]
          /\ k <= Len(rust_angles) => rust_angles[k] = angles[col_ids[k]]
    /\ \A k, l \in 1 .. Len(col_ids) : k < l => col_ids[k] < col_ids[l]
    /\ {col_ids[k] : k \in 1 .. Len(col_ids)}
          = (1 .. Len(s)) \ {consumed[k].col_id : k \in 1 .. Len(consumed)}

\* C9 witness: the re-check has removed the second column and its label while
\* the first column and its label remain.
C9_Witness ==
    /\ \E k \in 1 .. Len(consumed) :
          consumed[k].phase = "engine" /\ consumed[k].col_id = 2
    /\ col_ids = <<1>>
    /\ rust_angles = <<angles[1]>>

\* C10: pre-pass completeness and idempotence.  When the pre-pass has ended
\* it has scanned every qubit, no remaining column equals a row of the
\* identity state, and a second scan from qubit 0 of what it left finds no
\* match: it returns no instruction and removes nothing.
C10_PrePassComplete ==
    pc = "start"
    => /\ qubit_idx = num_qubits
       /\ \A k \in 1 .. Len(s_cpy) : \A r \in Qubits(num_qubits) :
             s_cpy[k] /= Eye(num_qubits)[r]
       /\ LET again == IterNext(s_cpy, rust_angles, col_ids, 0, 0)
          IN /\ again.instr = None
             /\ again.removed = 0
             /\ again.s_cpy = s_cpy
             /\ again.rust_angles = rust_angles

\* C11: totality.  On well-formed input no reachable state is a failure of
\* the engine: no label removal out of range and no parse failure (pc is
\* never "panic" or "error"), the label list is as long as the remaining
\* column list whenever the re-check can remove from both, and the pivot
\* selection, which reads column 0 of the item's matrix and takes a maximum
\* over the eligible rows, runs only on an item that has a column.
C11_EngineTotal ==
    /\ pc \notin {"panic", "error"}
    /\ pc \in {"pop", "elim", "split"} => Len(rust_angles) = Len(s_cpy)
    /\ pc \in {"elim", "split"} => cur.s /= <<>>

\* A call that ran the row-elimination loop, removed a label in the re-check
\* and split an item, and reached the hand-off.
C11_Witness ==
    /\ pc = "done"
    /\ Len(s) = MaxCols
    /\ s_cpy = <<>>
    /\ \E k \in 1 .. Len(consumed) : consumed[k].phase = "engine"
    /\ \E k \in 1 .. Len(instructions) : instructions[k].gate = "CXGate"

\* The balance of a row over an item's matrix: the larger of its number of
\* 0 entries and its number of 1 entries.
Balance(item, r) ==
    LET ones == Cardinality({k \in 1 .. Len(item.s) : item.s[k][r] = 1})
        zeros == Len(item.s) - ones
    IN IF ones >= zeros THEN ones ELSE zeros

\* The position in `parent` of the row that `child` lacks (a split removes
\* exactly one row from the eligible list).
PivotPos(parent, child) ==
    CHOOSE p \in 1 .. Len(parent) :
        \A k \in 1 .. Len(child) : child[k] /= parent[p]

\* The item being split has a maximal balance shared by several eligible rows.
PivotTie(item) ==
    \E a, b \in 1 .. Len(item.i) :
        /\ a < b
        /\ Balance(item, item.i[a]) = Balance(item, item.i[b])
        /\ \A l \in 1 .. Len(item.i) :
               Balance(item, item.i[l]) <= Balance(item, item.i[a])

\* C12 as stated: the pivot of every split is an eligible row of maximal
\* balance, and of several rows of maximal balance it is the one that comes
\* first in the eligible list.
C12_PivotFirstMax ==
    [][SplitStep =>
         LET p == PivotPos(cur.i, q'[Len(q')].i)
         IN /\ \A l \in 1 .. Len(cur.i) :
                   Balance(cur, cur.i[l]) <= Balance(cur, cur.i[p])
            /\ \A l \in 1 .. (p - 1) :
                   Balance(cur, cur.i[l]) < Balance(cur, cur.i[p])]_vars

\* C12, amended: the pivot of every split is an eligible row of maximal
\* balance, and of several rows of maximal balance it is the one that comes
\* last in the eligible list.
C12_PivotLastMax ==
    [][SplitStep =>
         LET p == PivotPos(cur.i, q'[Len(q')].i)
         IN /\ \A l \in 1 .. Len(cur.i) :
                   Balance(cur, cur.i[l]) <= Balance(cur, cur.i[p])
            /\ \A l \in (p + 1) .. Len(cur.i) :
                   Balance(cur, cur.i[l]) < Balance(cur, cur.i[p])]_vars

\* An item has just been split (the children are the two items on top of the
\* stack) whose maximal balance was shared by several eligible rows, and the
\* children lack the last of them.
C12_Witness ==
    /\ pc = "pop"
    /\ cur.s /= <<>>
    /\ Len(q) >= 2
    /\ Len(q[Len(q)].i) + 1 = Len(cur.i)
    /\ PivotTie(cur)
    /\ LET p == PivotPos(cur.i, q[Len(q)].i)
       IN \E a \in 1 .. (p - 1) :
              Balance(cur, cur.i[a]) = Balance(cur, cur.i[p])

\* C13 as stated: the engine starts with exactly one work item, whose matrix
\* is the residual column list the pre-pass left, whose eligible rows are
\* 0 .. n-1 in increasing order and whose excluded row is the sentinel n.
C13_InitialItemResidual ==
    [][pc = "start" =>
         /\ Len(q') = 1
         /\ q'[1].s = s_cpy
         /\ q'[1].i = [k \in 1 .. num_qubits |-> k - 1]
         /\ q'[1].ep = num_qubits]_vars

\* C13, amended: the engine starts with exactly one work item, whose matrix
\* is the whole input matrix, the columns the pre-pass consumed included,
\* whose eligible rows are 0 .. n-1 in increasing order and whose excluded
\* row is the sentinel n.
C13_InitialItemFull ==
    [][pc = "start" =>
         /\ Len(q') = 1
         /\ q'[1].s = s
         /\ q'[1].i = [k \in 1 .. num_qubits |-> k - 1]
         /\ q'[1].ep = num_qubits]_vars

\* The engine has just been started after a pre-pass that consumed a column,
\* and the one item on the stack still holds every input column.
C13_Witness ==
    /\ pc = "pop"
    /\ instructions /= <<>>
    /\ state = state_cpy
    /\ Len(s_cpy) < Len(s)
    /\ Len(q) = 1
    /\ Len(q[1].s) = Len(s)
    /\ Len(q[1].i) = num_qubits

\* `sub` holds exactly the columns of m whose entry at `row` is `bit`, each
\* once, in the order they have in m.
IsSelection(m, row, bit, sub) ==
    LET hits == {p \in 1 .. Len(m) : m[p][row] = bit}
    IN /\ Len(sub) = Cardinality(hits)
       /\ \A p \in hits :
              sub[Cardinality({p2 \in hits : p2 <= p})] = m[p]

\* The eligible list with the entry at position p taken out.
DropPos(i, p) ==
    [k \in 1 .. (Len(i) - 1) |-> IF k < p THEN i[k] ELSE i[k + 1]]

\* C14: bipartition.  In every split the two pushed children are, one the
\* columns of the parent with entry 0 at the pivot row and the other the
\* columns with entry 1 there, each column of the parent in exactly one of
\* them and in the parent's order; every column keeps all n rows; and both
\* children have the parent's eligible list with the pivot taken out, the
\* order of the rest unchanged.
C14_Bipartition ==
    [][SplitStep =>
         LET top == q'[Len(q')]
             below == q'[Len(q') - 1]
             p == PivotPos(cur.i, top.i)
             jstar == cur.i[p]
         IN /\ Len(q') = Len(q) + 2
            /\ top.i = DropPos(cur.i, p)
            /\ below.i = DropPos(cur.i, p)
            /\ \E pair \in {<<top, below>>, <<below, top>>} :
                   /\ IsSelection(cur.s, jstar, 0, pair[1].s)
                   /\ IsSelection(cur.s, jstar, 1, pair[2].s)
            /\ Len(top.s) + Len(below.s) = Len(cur.s)
            /\ \A k \in 1 .. Len(top.s) : DOMAIN top.s[k] = Qubits(num_qubits)
            /\ \A k \in 1 .. Len(below.s) : DOMAIN below.s[k] = Qubits(num_qubits)]_vars

\* An item of two different columns has just been split on a row where both
\* have the same entry: one child holds both, in the parent's order, and has
\* an eligible row left.
C14_Witness ==
    /\ pc = "pop"
    /\ Len(cur.s) = 2
    /\ cur.s[1] /= cur.s[2]
    /\ Len(q) >= 2
    /\ Len(cur.i) >= 2
    /\ q[Len(q)].i = DropPos(cur.i, PivotPos(cur.i, q[Len(q)].i))
    /\ \E k \in {Len(q) - 1, Len(q)} : q[k].s = cur.s

\* C15: child ordering and excluded row.  In every split the child pushed
\* first (the lower of the two) holds the columns with entry 1 at the pivot
\* row and the child pushed second (the top of the stack) the columns with
\* entry 0; the first's excluded row is the pivot when the parent's is the
\* sentinel n and the parent's otherwise; the second's is the parent's; and
\* the next item taken from the stack is that second child.
C15_ChildOrder ==
    [][/\ SplitStep =>
            LET top == q'[Len(q')]
                below == q'[Len(q') - 1]
                jstar == cur.i[PivotPos(cur.i, top.i)]
            IN /\ SubSeq(q', 1, Len(q)) = q
               /\ \A k \in 1 .. Len(below.s) : below.s[k][jstar] = 1
               /\ \A k \in 1 .. Len(top.s) : top.s[k][jstar] = 0
               /\ below.ep = IF cur.ep = num_qubits THEN jstar ELSE cur.ep
               /\ top.ep = cur.ep
       /\ (pc = "pop" /\ q /= <<>>) =>
            /\ cur' = q[Len(q)]
            /\ q' = SubSeq(q, 1, Len(q) - 1)]_vars

\* The cols0 child of a split of an item with no excluded row has just been
\* popped: it has columns, its excluded row is still the sentinel, and the
\* cols1 child under it, on top of the stack, has columns and a row of the
\* parent's eligible list as its excluded row.
C15_Witness ==
    /\ pc = "split"
    /\ cur.ep = num_qubits
    /\ cur.s /= <<>>
    /\ Len(cur.i) < num_qubits
    /\ q /= <<>>
    /\ q[Len(q)].s /= <<>>
    /\ q[Len(q)].i = cur.i
    /\ q[Len(q)].ep < num_qubits
    /\ \A k \in 1 .. Len(cur.s) : cur.s[k][q[Len(q)].ep] = 0
    /\ \A k \in 1 .. Len(q[Len(q)].s) : q[Len(q)].s[k][q[Len(q)].ep] = 1

\* C16: broadcast and frame.  In every step that commits CNOT(j, ep), every
\* item of the stack, the re-pushed current item on top included, keeps its
\* place, its eligible list, its excluded row and its number of columns; in
\* every column of every item the entry at row j becomes its XOR with the
\* entry at row ep and every other entry stays; and every column left in the
\* global remaining list is still the input column it was.
C16_BroadcastFrame ==
    [][ElimStep =>
         LET old == Append(q, cur)
             new == Append(q', cur')
             cx == instructions'[Len(instructions) + 1]
             _j == cx.qubits[1]
             _ep == cx.qubits[2]
         IN /\ cx.gate = "CXGate"
            /\ _ep = cur.ep
            /\ Len(new) = Len(old)
            /\ \A k \in 1 .. Len(old) :
                   /\ new[k].i = old[k].i
                   /\ new[k].ep = old[k].ep
                   /\ Len(new[k].s) = Len(old[k].s)
                   /\ \A c \in 1 .. Len(old[k].s) :
                          \A r \in Qubits(num_qubits) :
                              new[k].s[c][r] =
                                  IF r = _j
                                  THEN (old[k].s[c][_j] + old[k].s[c][_ep]) % 2
                                  ELSE old[k].s[c][r]
            /\ \A k \in 1 .. Len(s_cpy') : s_cpy'[k] = s[col_ids'[k]]]_vars

\* A CNOT has just been committed while an item of another branch, with an
\* entry 1 at the target row, waited on the stack, and a column is left in
\* the global remaining list.
C16_Witness ==
    /\ pc = "elim"
    /\ condition
    /\ s_cpy /= <<>>
    /\ \E k \in 1 .. Len(q) :
           /\ q[k].i = cur.i
           /\ \E c \in 1 .. Len(q[k].s) : q[k].s[c][cur.ep] = 1

\* A step of the row-elimination loop that committed a CNOT, whatever the
\* outcome of the re-check that follows it.
CnotStep == pc = "elim" /\ Len(instructions') > Len(instructions)

\* C17: re-check completeness.  In every step that commits CNOT(j, ep), with
\* `target` the row ep of the updated state: the instructions after the CNOT
\* are phase gates on qubit ep, one for each column of the global remaining
\* list equal to target, each the gate of that column's label; the remaining
\* list afterwards is the list before with exactly those columns taken out,
\* the others in their order; and no column left equals target.
C17_RecheckComplete ==
    [][CnotStep =>
         LET base == Len(instructions) + 1
             _ep == instructions'[base].qubits[2]
             target == state'[_ep]
             hits == {p \in 1 .. Len(s_cpy) : s_cpy[p] = target}
             keep == (1 .. Len(s_cpy)) \ hits
         IN /\ Len(instructions') = base + Cardinality(hits)
            /\ \A p \in hits :
                   LET g == instructions'[base + Cardinality({p2 \in hits : p2 <= p})]
                   IN /\ g.gate = TableGate(angles[col_ids[p]])
                      /\ g.qubits = <<_ep>>
            /\ Len(s_cpy') = Cardinality(keep)
            /\ \A p \in keep :
                   LET at == Cardinality({p2 \in keep : p2 <= p})
                   IN /\ s_cpy'[at] = s_cpy[p]
                      /\ col_ids'[at] = col_ids[p]
            /\ \A k \in 1 .. Len(s_cpy') : s_cpy'[k] /= target]_vars

\* A CNOT has just been followed by two gates of the re-check: the two input
\* columns are equal, both were still in the global remaining list, at index
\* 0 and at the last index, and both matched the target row.
C17_Witness ==
    /\ pc = "elim"
    /\ Len(s) = 2
    /\ s[1] = s[2]
    /\ s_cpy = <<>>
    /\ Len(instructions) = 3
    /\ instructions[1].gate = "CXGate"
    /\ instructions[2].gate = "TGate"
    /\ instructions[3].gate = "TdgGate"
    /\ instructions[2].qubits = <<instructions[1].qubits[2]>>
    /\ instructions[3].qubits = instructions[2].qubits

\* C18: fixpoint continuity.  In every step that commits CNOT(j, ep) and goes
\* on, the item the loop continues with is the item it pushed: the same
\* eligible list, the same excluded row, and the pushed matrix with row j
\* replaced by row j XOR row ep; and the stack under it has the items it had
\* before the push, as many, each with its eligible list, its excluded row
\* and its number of columns, in the same places.
C18_FixpointContinuity ==
    [][ElimStep =>
         LET _j == instructions'[Len(instructions) + 1].qubits[1]
             _ep == instructions'[Len(instructions) + 1].qubits[2]
         IN /\ cur'.i = cur.i
            /\ cur'.ep = cur.ep
            /\ cur'.s = [c \in 1 .. Len(cur.s) |->
                            [r \in Qubits(num_qubits) |->
                                IF r = _j
                                THEN IF cur.s[c][_j] = cur.s[c][_ep] THEN 0 ELSE 1
                                ELSE cur.s[c][r]]]
            /\ Len(q') = Len(q)
            /\ \A k \in 1 .. Len(q) :
                   /\ q'[k].i = q[k].i
                   /\ q'[k].ep = q[k].ep
                   /\ Len(q'[k].s) = Len(q[k].s)]_vars

\* A CNOT has just been committed and the loop goes on with its item while
\* an item with columns and another excluded row waits on top of the stack.
C18_Witness ==
    /\ pc = "elim"
    /\ condition
    /\ cur.s /= <<>>
    /\ cur.ep < num_qubits
    /\ q /= <<>>
    /\ q[Len(q)].s /= <<>>
    /\ q[Len(q)].ep /= cur.ep

\* C19: the deduplication can be left out.  Every step that commits
\* CNOT(j, ep) and goes on leaves the stack and the current item as the
\* engine without lines 232-239 would: the broadcast applied to the stack
\* with the current item pushed on it, nothing removed, and its top popped.
\* (The instruction list and the parity state of a step are computed before
\* the deduplication and every other step is without it, so the two engines
\* go through the same states and end with the same instruction list and the
\* same state.)
C19_DedupOmittable ==
    [][ElimStep =>
         LET _j == instructions'[Len(instructions) + 1].qubits[1]
             _ep == instructions'[Len(instructions) + 1].qubits[2]
             nd == Broadcast(Append(q, cur), _j, _ep)
         IN /\ \A k, l \in 1 .. Len(q) : k /= l => q[k] /= q[l]
            /\ \A k \in 1 .. Len(q) : q[k] /= cur
            /\ cur' = nd[Len(nd)]
            /\ q' = SubSeq(nd, 1, Len(nd) - 1)]_vars

\* The deduplication has just run with the current item pushed on a stack
\* that holds its sibling: an item with the same eligible list and the same
\* excluded row and other columns.  Both are still there.
C19_Witness ==
    /\ pc = "elim"
    /\ condition
    /\ cur.s /= <<>>
    /\ \E k \in 1 .. Len(q) :
           /\ q[k].i = cur.i
           /\ q[k].ep = cur.ep
           /\ q[k].s /= <<>>
           /\ q[k].s /= cur.s

====
